---- MODULE Spec2Model ----
(***************************************************************************)
(* A model of the maimai light-level meter.                                *)
(*                                                                         *)
(*   src/src/main_camera.rs         the run mode (camera frame -> GPIO     *)
(*                                  pins) and the ledstest mode            *)
(*   src/src/main_camera_nannou.rs  the preview variant: the capture       *)
(*                                  callback publishes each frame into the *)
(*                                  VIDEO_FRAME RwLock, the render thread  *)
(*                                  (view) reads it with try_read          *)
(*                                                                         *)
(* Four specifications share the definitions:                              *)
(*   Spec          main_camera.rs, modes run and ledstest                  *)
(*   SpecInitTwice GPIO::init called twice in a row on any pin state       *)
(*   SpecSignal    GPIO::signal called on any pin state with any level     *)
(*   SpecSlot      main_camera_nannou.rs, capture thread and render thread *)
(***************************************************************************)
EXTENDS Integers, Sequences, FiniteSets

(***************************************************************************)
(* Bounds.  The source works on 640x480 frames, 8 pins and a divisor of    *)
(* 100; the model keeps the same code on a scaled-down frame, pin bank and *)
(* divisor, chosen so that Width*Height \div pindiv exceeds NumPins-1 (the *)
(* level overshoots the pin range, as 3072 does in the source).            *)
(***************************************************************************)
Width == 3
Height == 2
NumPins == 3
pindiv == 2
MaxFrames == 2

(* Program constants. *)
treshold == 230
view_treshold == 200
Stride == 2

NumSamples == Width * Height
FrameSize == NumSamples * Stride
PinIdx == 0 .. (NumPins - 1)

VARIABLES
  \* ---- main_camera.rs ----
  mode,        \* the subcommand "run" or "ledstest"; "init_twice" and
               \* "signal" are the drivers of SpecInitTwice and SpecSignal,
               \* "preview" is main_camera_nannou.rs's run
  device_id,   \* the parsed bus:address argument, <<>> when malformed
  devices,     \* what ctx.devices() enumerated
  m_pc,        \* position of the main thread
  proc,        \* "running", "exit_ok", "panicked" or "aborted"
  cause,       \* why the run ended ("" while running)
  pins,        \* the pin access layer: index -> [exported, direction, value]
  init_i,      \* GPIO::init: index of the pin being initialised
  init_st,     \* GPIO::init: "export", "direction" or "value"
  init_res,    \* "none", "ok" or "err"
  init_calls,  \* completed GPIO::init calls
  touched,     \* some pin operation (export, set_direction, set_value) was attempted
  call_touched,\* the GPIO::init call in progress (or the last one) attempted one
  pins_first,  \* the pin states the first GPIO::init call left; once a
               \* GPIO::signal call begins, the pin states it found
  stream,      \* "none", "started" or "stopped"
  cb_pc,       \* position of the stream callback: "idle", "signal"
  frame,       \* the frame the callback is processing (<<>> when idle)
  global,      \* the callback's brightness count
  level,       \* the argument of GPIO::signal
  sig_n,       \* GPIO::signal: index of the next pin
  sig_done,    \* the last callback ran GPIO::signal to its end
  counter,     \* the frame counter
  nsignals,    \* GPIO::signal calls begun
  prev_level,  \* the argument of the GPIO::signal call before the current one
  test_i,      \* GPIO::test: index of the pin under test
  test_st,     \* GPIO::test: "on" (about to drive active) or "off"
  test_on,     \* GPIO::test: how many times each pin was driven active
  \* ---- main_camera_nannou.rs ----
  slot_set,    \* VIDEO_FRAME has been set
  buf,         \* the Vec<u8> inside the RwLock
  writer,      \* a write guard is held
  readers,     \* read guards held
  c_pc,        \* capture thread / callback position
  c_frame,     \* the frame the callback is publishing
  c_count,     \* the preview variant's frame counter
  last_pub,    \* the most recent frame a publish completed (initially zeros)
  r_pc,        \* render thread position
  r_off,       \* view: the byte offset of the next sample
  r_seen,      \* view: the luma samples read in this tick
  r_try,       \* the last try_read: [called, writer_held, got]
  r_view,      \* the buffer as the last successful try_read found it
  r_expect,    \* last_pub at the last successful try_read
  r_count,     \* view: the count of samples over view_treshold
  r_drew       \* the tick in progress or just finished drew the frame

camVars == << mode, device_id, devices, m_pc, proc, cause, pins, init_i,
              init_st, init_res, init_calls, touched, call_touched, pins_first,
              stream, cb_pc, frame, global, level, sig_n, sig_done, counter,
              nsignals, prev_level, test_i, test_st, test_on >>
slotVars == << slot_set, buf, writer, readers, c_pc, c_frame, c_count,
               last_pub, r_pc, r_off, r_seen, r_try, r_view, r_expect,
               r_count, r_drew >>
vars == << camVars, slotVars >>

(***************************************************************************)
(* Frames.  A frame is FrameSize bytes, luma at the even offsets and       *)
(* chroma at the odd ones.  The chroma bytes are 255 so that a sampler     *)
(* that read them would count them.  The frames drawn are the uniform     *)
(* ones and those with one run of bright samples, at every place and of   *)
(* every length.                                                           *)
(***************************************************************************)
UniformLumas == {0, view_treshold, treshold, 255}

(* A frame from its luma samples l[0], l[1], ... *)
MakeFrame(l) ==
  [j \in 1 .. FrameSize |->
     IF (j - 1) % Stride = 0 THEN l[(j - 1) \div Stride] ELSE 255]

UniformFrame(v) == MakeFrame([k \in 0 .. (NumSamples - 1) |-> v])

(* Samples a .. b-1 just over the threshold, the others just at it. *)
RunFrame(a, b) ==
  MakeFrame([k \in 0 .. (NumSamples - 1) |->
               IF a <= k /\ k < b THEN treshold + 1 ELSE treshold])

Frames ==
  { RunFrame(a, b) : a \in 0 .. NumSamples, b \in 0 .. NumSamples }
    \cup { UniformFrame(v) : v \in UniformLumas }

(* video_frame[offset], offsets counted from 0 as in the source. *)
ByteAt(f, offset) == f[offset + 1]

(* The offsets the two nested loops visit: offset += 2 per sample. *)
SampleOffsets == { Stride * k : k \in 0 .. (NumSamples - 1) }

(* The pixel loop with >= where the source has >. *)
BrightnessCountAtLeast(f) ==
  Cardinality({ o \in SampleOffsets : ByteAt(f, o) >= treshold })

(* The callback's pixel loop: global += 1 for each sample v > treshold. *)
BrightnessCount(f) ==
  Cardinality({ o \in SampleOffsets : ByteAt(f, o) > treshold })

(* The division replaced by a remainder. *)
SignalArgModulo(g) == g % pindiv

(* global/pindiv as usize: the argument handed to GPIO::signal. *)
SignalArg(g) == g \div pindiv

(* The two values swapped. *)
SignalValueInverted(n, lv) == IF n > lv THEN 0 ELSE 1

(* The comparison off by one: n >= level. *)
SignalValueOffByOne(n, lv) == IF n >= lv THEN 1 ELSE 0

(* GPIO::signal: let value = if n > level { 1 } else { 0 }. *)
SignalValue(n, lv) == IF n > lv THEN 1 ELSE 0

(* Pins a pin bank state shows active (value 0). *)
ActivePins(p) == { i \in PinIdx : p[i].value = 0 }

PinStates == [exported : BOOLEAN, direction : {"in", "out"}, value : {0, 1}]

DeviceIds == { <<1, 1>>, <<1, 2>> }
RequestedId == <<1, 2>>
BadDeviceId == << >>

(***************************************************************************)
(* The pin access layer (sysfs_gpio::Pin) as GPIO::init and GPIO::signal   *)
(* use it.                                                                 *)
(***************************************************************************)
Export(p) == [p EXCEPT !.exported = TRUE]
SetDirectionOut(p, v) == [p EXCEPT !.direction = "out", !.value = v]
SetValue(p, v) == [p EXCEPT !.value = v]

(* GPIO::init without the value step, and with the value set unchecked. *)
NeedsValueNever(p) == FALSE
NeedsValueAlways(p) == TRUE

(* The checks GPIO::init makes before each set. *)
NeedsExport(p) == ~p.exported
NeedsDirection(p) == p.direction # "out"
NeedsValue(p) == p.value # 1

Initialised(p) == p.exported /\ p.direction = "out" /\ p.value = 1

(***************************************************************************)
(* The state the preview variant's variables take while the camera        *)
(* program is the one under study.                                         *)
(***************************************************************************)
ZeroBuffer == [j \in 1 .. FrameSize |-> 0]
NoTry == [called |-> FALSE, writer_held |-> FALSE, got |-> FALSE]

SlotInit ==
  /\ slot_set = FALSE
  /\ buf = ZeroBuffer
  /\ writer = FALSE
  /\ readers = 0
  /\ c_pc = "start"
  /\ c_frame = << >>
  /\ c_count = 0
  /\ last_pub = ZeroBuffer
  /\ r_pc = "idle"
  /\ r_off = 0
  /\ r_seen = << >>
  /\ r_try = NoTry
  /\ r_view = << >>
  /\ r_expect = << >>
  /\ r_count = 0
  /\ r_drew = FALSE

CamInit(modes, ids, first_pc) ==
  /\ mode \in modes
  /\ device_id \in ids
  /\ devices = {}
  /\ m_pc = first_pc[mode]
  /\ proc = "running"
  /\ cause = ""
  /\ pins \in [PinIdx -> PinStates]
  /\ init_i = 0
  /\ init_st = "export"
  /\ init_res = "none"
  /\ init_calls = 0
  /\ touched = FALSE
  /\ call_touched = FALSE
  /\ pins_first = pins
  /\ stream = "none"
  /\ cb_pc = "idle"
  /\ frame = << >>
  /\ global = 0
  /\ level = 0
  /\ sig_n = 0
  /\ sig_done = FALSE
  /\ counter = 0
  /\ nsignals = 0
  /\ prev_level = 0
  /\ test_i = 0
  /\ test_st = "on"
  /\ test_on = [i \in PinIdx |-> 0]

(* main(): the subcommand decides where the main thread starts. *)
FirstPc == [m \in {"run", "ledstest", "init_twice", "signal", "preview"} |->
              CASE m = "run" -> "context"
                [] m = "signal" -> "call"
                [] m = "preview" -> "app"
                [] OTHER -> "init"]

Init ==
  /\ CamInit({"run", "ledstest"}, {RequestedId, BadDeviceId}, FirstPc)
  /\ SlotInit

Running == proc = "running"

(* cmd_run: capture_video(..).expect(..) panics on any Err; an expect      *)
(* inside capture_video panics the same way.                               *)
Panic(c) ==
  /\ proc' = "panicked"
  /\ cause' = c

(* return Err(..) where the source returns Ok(()). *)
ExitAsError(c) ==
  /\ proc' = "panicked"
  /\ cause' = c

ExitOk(c) ==
  /\ proc' = "exit_ok"
  /\ cause' = c

(***************************************************************************)
(* capture_video, up to the pin bank.                                      *)
(***************************************************************************)
NewContext ==
  /\ Running /\ mode = "run" /\ m_pc = "context"
  /\ \E ok \in BOOLEAN :
       IF ok THEN m_pc' = "parse" /\ UNCHANGED << proc, cause >>
             ELSE Panic("context") /\ UNCHANGED m_pc
  /\ UNCHANGED << mode, device_id, devices, pins, init_i, init_st, init_res,
                  init_calls, touched, call_touched, pins_first, stream,
                  cb_pc, frame, global, level, sig_n, sig_done, counter,
                  nsignals, prev_level, test_i, test_st, test_on, slotVars >>

ParseDeviceId ==
  /\ Running /\ mode = "run" /\ m_pc = "parse"
  /\ IF device_id = BadDeviceId
       THEN Panic("parse") /\ UNCHANGED m_pc
       ELSE m_pc' = "find" /\ UNCHANGED << proc, cause >>
  /\ UNCHANGED << mode, device_id, devices, pins, init_i, init_st, init_res,
                  init_calls, touched, call_touched, pins_first, stream,
                  cb_pc, frame, global, level, sig_n, sig_done, counter,
                  nsignals, prev_level, test_i, test_st, test_on, slotVars >>

FindDevice ==
  /\ Running /\ mode = "run" /\ m_pc = "find"
  /\ \E ok \in BOOLEAN, devs \in SUBSET DeviceIds :
       IF ~ok
         THEN Panic("enumerate") /\ UNCHANGED << m_pc, devices >>
         ELSE /\ devices' = devs
              /\ IF device_id \in devs
                   THEN m_pc' = "open" /\ UNCHANGED << proc, cause >>
                   ELSE ExitOk("device_not_found") /\ UNCHANGED m_pc
  /\ UNCHANGED << mode, device_id, pins, init_i, init_st, init_res,
                  init_calls, touched, call_touched, pins_first, stream,
                  cb_pc, frame, global, level, sig_n, sig_done, counter,
                  nsignals, prev_level, test_i, test_st, test_on, slotVars >>

OpenDevice ==
  /\ Running /\ mode = "run" /\ m_pc = "open"
  /\ \E r \in {"ok", "access_denied", "other"} :
       CASE r = "ok" -> m_pc' = "ae_mode" /\ UNCHANGED << proc, cause >>
         [] r = "access_denied" -> ExitOk("access_denied") /\ UNCHANGED m_pc
         [] r = "other" -> Panic("open") /\ UNCHANGED m_pc
  /\ UNCHANGED << mode, device_id, devices, pins, init_i, init_st, init_res,
                  init_calls, touched, call_touched, pins_first, stream,
                  cb_pc, frame, global, level, sig_n, sig_done, counter,
                  nsignals, prev_level, test_i, test_st, test_on, slotVars >>

SetAeMode ==
  /\ Running /\ mode = "run" /\ m_pc = "ae_mode"
  /\ \E ok \in BOOLEAN :
       IF ok THEN m_pc' = "stream_handle" /\ UNCHANGED << proc, cause >>
             ELSE Panic("ae_mode") /\ UNCHANGED m_pc
  /\ UNCHANGED << mode, device_id, devices, pins, init_i, init_st, init_res,
                  init_calls, touched, call_touched, pins_first, stream,
                  cb_pc, frame, global, level, sig_n, sig_done, counter,
                  nsignals, prev_level, test_i, test_st, test_on, slotVars >>

GetStreamHandle ==
  /\ Running /\ mode = "run" /\ m_pc = "stream_handle"
  /\ \E ok \in BOOLEAN :
       IF ok THEN m_pc' = "init" /\ UNCHANGED << proc, cause >>
             ELSE Panic("stream_handle") /\ UNCHANGED m_pc
  /\ UNCHANGED << mode, device_id, devices, pins, init_i, init_st, init_res,
                  init_calls, touched, call_touched, pins_first, stream,
                  cb_pc, frame, global, level, sig_n, sig_done, counter,
                  nsignals, prev_level, test_i, test_st, test_on, slotVars >>

(***************************************************************************)
(* GPIO::init: for each pin, export it unless exported, set direction out  *)
(* unless out, set value 1 unless 1.  Any failing call returns Err, which  *)
(* `?` (run) or expect (ledstest) turns into the end of the process.       *)
(***************************************************************************)
InInit == Running /\ m_pc = "init" /\ init_i < NumPins

InitFails ==
  /\ init_res' = "err"
  /\ Panic("gpio_init")

GpioInitExport ==
  /\ InInit /\ init_st = "export"
  /\ IF NeedsExport(pins[init_i])
       THEN \E ok \in BOOLEAN :
              /\ touched' = TRUE
              /\ call_touched' = TRUE
              /\ IF ok
                   THEN /\ pins' = [pins EXCEPT ![init_i] = Export(@)]
                        /\ init_st' = "direction"
                        /\ UNCHANGED << init_res, proc, cause >>
                   ELSE InitFails /\ UNCHANGED << pins, init_st >>
       ELSE /\ init_st' = "direction"
            /\ UNCHANGED << pins, touched, call_touched, init_res, proc, cause >>
  /\ UNCHANGED << mode, device_id, devices, m_pc, init_i, init_calls,
                  pins_first, stream, cb_pc, frame, global, level, sig_n,
                  sig_done, counter, nsignals, prev_level, test_i, test_st,
                  test_on, slotVars >>

(* get_direction()? may fail; set_direction(Out) is attempted only when    *)
(* the direction read is not Out.  Writing the direction also drives the   *)
(* line to a level the source does not choose (v).                         *)
GpioInitDirection ==
  /\ InInit /\ init_st = "direction"
  /\ \E get_ok \in BOOLEAN :
       IF ~get_ok
         THEN InitFails /\ UNCHANGED << pins, init_st, touched, call_touched >>
         ELSE IF NeedsDirection(pins[init_i])
                THEN \E ok \in BOOLEAN, v \in {0, 1} :
                       /\ touched' = TRUE
                       /\ call_touched' = TRUE
                       /\ IF ok
                            THEN /\ pins' = [pins EXCEPT ![init_i] = SetDirectionOut(@, v)]
                                 /\ init_st' = "value"
                                 /\ UNCHANGED << init_res, proc, cause >>
                            ELSE InitFails /\ UNCHANGED << pins, init_st >>
                ELSE /\ init_st' = "value"
                     /\ UNCHANGED << pins, touched, call_touched, init_res,
                                     proc, cause >>
  /\ UNCHANGED << mode, device_id, devices, m_pc, init_i, init_calls,
                  pins_first, stream, cb_pc, frame, global, level, sig_n,
                  sig_done, counter, nsignals, prev_level, test_i, test_st,
                  test_on, slotVars >>

GpioInitValue ==
  /\ InInit /\ init_st = "value"
  /\ \E get_ok \in BOOLEAN :
       IF ~get_ok
         THEN InitFails /\ UNCHANGED << pins, init_st, init_i, touched, call_touched >>
         ELSE IF NeedsValue(pins[init_i])
                THEN \E ok \in BOOLEAN :
                       /\ touched' = TRUE
                       /\ call_touched' = TRUE
                       /\ IF ok
                            THEN /\ pins' = [pins EXCEPT ![init_i] = SetValue(@, 1)]
                                 /\ init_st' = "export"
                                 /\ init_i' = init_i + 1
                                 /\ UNCHANGED << init_res, proc, cause >>
                            ELSE InitFails /\ UNCHANGED << pins, init_st, init_i >>
                ELSE /\ init_st' = "export"
                     /\ init_i' = init_i + 1
                     /\ UNCHANGED << pins, touched, call_touched, init_res,
                                     proc, cause >>
  /\ UNCHANGED << mode, device_id, devices, m_pc, init_calls, pins_first,
                  stream, cb_pc, frame, global, level, sig_n, sig_done,
                  counter, nsignals, prev_level, test_i, test_st, test_on,
                  slotVars >>

(* Ok(()) at the end of the loop: capture_video goes on to start_stream,   *)
(* cmd_leds_test to GPIO::test.                                            *)
NextAfterInit == IF mode = "run" THEN "start_stream" ELSE "test"

GpioInitReturn ==
  /\ Running /\ m_pc = "init" /\ init_i = NumPins
  /\ mode \in {"run", "ledstest"}
  /\ init_res' = "ok"
  /\ init_calls' = init_calls + 1
  /\ pins_first' = pins
  /\ m_pc' = NextAfterInit
  /\ UNCHANGED << mode, device_id, devices, proc, cause, pins, init_i,
                  init_st, touched, call_touched, stream, cb_pc, frame,
                  global, level, sig_n, sig_done, counter, nsignals,
                  prev_level, test_i, test_st, test_on, slotVars >>

(***************************************************************************)
(* start_stream(callback, counter).expect(..), the 180 s sleep during      *)
(* which the capture thread runs the callback, and stream.stop().          *)
(***************************************************************************)
StartStream ==
  /\ Running /\ m_pc = "start_stream"
  /\ \E ok \in BOOLEAN :
       IF ok THEN /\ stream' = "started"
                  /\ m_pc' = "sleep"
                  /\ UNCHANGED << proc, cause >>
             ELSE Panic("start_stream") /\ UNCHANGED << stream, m_pc >>
  /\ UNCHANGED << mode, device_id, devices, pins, init_i, init_st, init_res,
                  init_calls, touched, call_touched, pins_first, cb_pc, frame,
                  global, level, sig_n, sig_done, counter, nsignals,
                  prev_level, test_i, test_st, test_on, slotVars >>

(* A frame source that goes on calling the callback after stream.stop(). *)
FrameCallbackAfterStop ==
  /\ Running /\ stream \in {"started", "stopped"} /\ cb_pc = "idle"
  /\ counter < MaxFrames
  /\ \E f \in Frames :
       /\ frame' = f
       /\ global' = BrightnessCount(f)
       /\ level' = SignalArg(BrightnessCount(f))
  /\ cb_pc' = "signal"
  /\ sig_n' = 0
  /\ sig_done' = FALSE
  /\ nsignals' = nsignals + 1
  /\ prev_level' = level
  /\ pins_first' = pins
  /\ UNCHANGED << mode, device_id, devices, m_pc, proc, cause, pins, init_i,
                  init_st, init_res, init_calls, touched, call_touched,
                  stream, counter, test_i, test_st, test_on, slotVars >>

(* The callback up to the call of gpio.signal: the pixel loop and the      *)
(* division.                                                               *)
FrameCallback ==
  /\ Running /\ stream = "started" /\ cb_pc = "idle"
  /\ counter < MaxFrames
  /\ \E f \in Frames :
       /\ frame' = f
       /\ global' = BrightnessCount(f)
       /\ level' = SignalArg(BrightnessCount(f))
  /\ cb_pc' = "signal"
  /\ sig_n' = 0
  /\ sig_done' = FALSE
  /\ nsignals' = nsignals + 1
  /\ prev_level' = level
  /\ pins_first' = pins
  /\ UNCHANGED << mode, device_id, devices, m_pc, proc, cause, pins, init_i,
                  init_st, init_res, init_calls, touched, call_touched,
                  stream, counter, test_i, test_st, test_on, slotVars >>

(* GPIO::signal's loop with a failed write noted and passed over: the     *)
(* loop goes on to the next pin and the process lives on.                  *)
GpioSignalWriteSwallowsError ==
  /\ Running /\ cb_pc = "signal" /\ sig_n < NumPins
  /\ touched' = TRUE
  /\ \E ok \in BOOLEAN :
       IF ok
         THEN /\ pins' = [pins EXCEPT ![sig_n] = SetValue(@, SignalValue(sig_n, level))]
              /\ sig_n' = sig_n + 1
              /\ UNCHANGED << proc, cause >>
         ELSE /\ cause' = "gpio_signal"
              /\ sig_n' = sig_n + 1
              /\ UNCHANGED << pins, proc >>
  /\ UNCHANGED << mode, device_id, devices, m_pc, init_i, init_st, init_res,
                  init_calls, call_touched, pins_first, stream, cb_pc, frame,
                  global, level, sig_done, counter, nsignals, prev_level,
                  test_i, test_st, test_on, slotVars >>

(* One turn of GPIO::signal's loop: pins[n].set_value(value)?.  An Err is  *)
(* turned into a panic by expect("must set gpios") inside the callback,    *)
(* which ends the process.                                                 *)
GpioSignalWrite ==
  /\ Running /\ cb_pc = "signal" /\ sig_n < NumPins
  /\ touched' = TRUE
  /\ \E ok \in BOOLEAN :
       IF ok
         THEN /\ pins' = [pins EXCEPT ![sig_n] = SetValue(@, SignalValue(sig_n, level))]
              /\ sig_n' = sig_n + 1
              /\ UNCHANGED << proc, cause >>
         ELSE /\ proc' = "aborted"
              /\ cause' = "gpio_signal"
              /\ UNCHANGED << pins, sig_n >>
  /\ UNCHANGED << mode, device_id, devices, m_pc, init_i, init_st, init_res,
                  init_calls, call_touched, pins_first, stream, cb_pc, frame,
                  global, level, sig_done, counter, nsignals, prev_level,
                  test_i, test_st, test_on, slotVars >>

(* signal returned Ok: println, count.fetch_add(1), the callback returns. *)
CallbackReturn ==
  /\ Running /\ cb_pc = "signal" /\ sig_n = NumPins
  /\ counter' = counter + 1
  /\ cb_pc' = "idle"
  /\ sig_done' = TRUE
  /\ UNCHANGED << mode, device_id, devices, m_pc, proc, cause, pins, init_i,
                  init_st, init_res, init_calls, touched, call_touched,
                  pins_first, stream, frame, global, level, sig_n, nsignals,
                  prev_level, test_i, test_st, test_on, slotVars >>

(* The sleep is over: stream.stop(), which waits for a callback in        *)
(* progress.  Nothing is written to the pins.                              *)
StopStream ==
  /\ Running /\ m_pc = "sleep" /\ cb_pc = "idle"
  /\ stream' = "stopped"
  /\ m_pc' = "stopped"
  /\ UNCHANGED << mode, device_id, devices, proc, cause, pins, init_i,
                  init_st, init_res, init_calls, touched, call_touched,
                  pins_first, cb_pc, frame, global, level, sig_n, sig_done,
                  counter, nsignals, prev_level, test_i, test_st, test_on,
                  slotVars >>

(* println!("Counter: ..") and return Ok(()): main returns. *)
CaptureReturn ==
  /\ Running /\ m_pc = "stopped"
  /\ m_pc' = "done"
  /\ ExitOk("finished")
  /\ UNCHANGED << mode, device_id, devices, pins, init_i, init_st, init_res,
                  init_calls, touched, call_touched, pins_first, stream,
                  cb_pc, frame, global, level, sig_n, sig_done, counter,
                  nsignals, prev_level, test_i, test_st, test_on, slotVars >>

(***************************************************************************)
(* GPIO::test: set_value(0), sleep 200 ms, set_value(1), pin after pin.    *)
(***************************************************************************)
GpioTestOn ==
  /\ Running /\ m_pc = "test" /\ test_i < NumPins /\ test_st = "on"
  /\ touched' = TRUE
  /\ \E ok \in BOOLEAN :
       IF ok THEN /\ pins' = [pins EXCEPT ![test_i] = SetValue(@, 0)]
                  /\ test_st' = "off"
                  /\ test_on' = [test_on EXCEPT ![test_i] = @ + 1]
                  /\ UNCHANGED << proc, cause >>
             ELSE Panic("gpio_test") /\ UNCHANGED << pins, test_st, test_on >>
  /\ UNCHANGED << mode, device_id, devices, m_pc, init_i, init_st, init_res,
                  init_calls, call_touched, pins_first, stream, cb_pc, frame,
                  global, level, sig_n, sig_done, counter, nsignals,
                  prev_level, test_i, slotVars >>

(* GPIO::test without the set_value(1) that returns the pin to idle. *)
GpioTestOffSkipped ==
  /\ Running /\ m_pc = "test" /\ test_i < NumPins /\ test_st = "off"
  /\ test_st' = "on"
  /\ test_i' = test_i + 1
  /\ UNCHANGED << mode, device_id, devices, m_pc, proc, cause, pins, init_i,
                  init_st, init_res, init_calls, touched, call_touched,
                  pins_first, stream, cb_pc, frame, global, level, sig_n,
                  sig_done, counter, nsignals, prev_level, test_on, slotVars >>

GpioTestOff ==
  /\ Running /\ m_pc = "test" /\ test_i < NumPins /\ test_st = "off"
  /\ touched' = TRUE
  /\ \E ok \in BOOLEAN :
       IF ok THEN /\ pins' = [pins EXCEPT ![test_i] = SetValue(@, 1)]
                  /\ test_st' = "on"
                  /\ test_i' = test_i + 1
                  /\ UNCHANGED << proc, cause >>
             ELSE Panic("gpio_test") /\ UNCHANGED << pins, test_st, test_i >>
  /\ UNCHANGED << mode, device_id, devices, m_pc, init_i, init_st, init_res,
                  init_calls, call_touched, pins_first, stream, cb_pc, frame,
                  global, level, sig_n, sig_done, counter, nsignals,
                  prev_level, test_on, slotVars >>

GpioTestReturn ==
  /\ Running /\ m_pc = "test" /\ test_i = NumPins
  /\ m_pc' = "done"
  /\ ExitOk("finished")
  /\ UNCHANGED << mode, device_id, devices, pins, init_i, init_st, init_res,
                  init_calls, touched, call_touched, pins_first, stream,
                  cb_pc, frame, global, level, sig_n, sig_done, counter,
                  nsignals, prev_level, test_i, test_st, test_on, slotVars >>

Next ==
  \/ NewContext
  \/ ParseDeviceId
  \/ FindDevice
  \/ OpenDevice
  \/ SetAeMode
  \/ GetStreamHandle
  \/ GpioInitExport
  \/ GpioInitDirection
  \/ GpioInitValue
  \/ GpioInitReturn
  \/ StartStream
  \/ FrameCallback
  \/ GpioSignalWrite
  \/ CallbackReturn
  \/ StopStream
  \/ CaptureReturn
  \/ GpioTestOn
  \/ GpioTestOff
  \/ GpioTestReturn

Spec == Init /\ [][Next]_vars

(***************************************************************************)
(* SpecInitTwice: a driver that calls GPIO::init twice in a row, from any  *)
(* state of the pin access layer.                                          *)
(***************************************************************************)
InitTwiceInit ==
  /\ CamInit({"init_twice"}, {RequestedId}, FirstPc)
  /\ SlotInit

InitAgain ==
  /\ Running /\ mode = "init_twice" /\ m_pc = "init" /\ init_i = NumPins
  /\ init_res' = "ok"
  /\ init_calls' = init_calls + 1
  /\ IF init_calls = 0
       THEN /\ pins_first' = pins
            /\ init_i' = 0
            /\ call_touched' = FALSE
            /\ UNCHANGED << m_pc, proc, cause >>
       ELSE /\ m_pc' = "done"
            /\ ExitOk("finished")
            /\ UNCHANGED << pins_first, init_i, call_touched >>
  /\ UNCHANGED << mode, device_id, devices, pins, init_st, touched, stream,
                  cb_pc, frame, global, level, sig_n, sig_done, counter,
                  nsignals, prev_level, test_i, test_st, test_on, slotVars >>

InitTwiceNext ==
  \/ GpioInitExport
  \/ GpioInitDirection
  \/ GpioInitValue
  \/ InitAgain

SpecInitTwice == InitTwiceInit /\ [][InitTwiceNext]_vars

(***************************************************************************)
(* SpecSignal: a driver that calls GPIO::signal with any level, in range   *)
(* or beyond it, from any state of the pin access layer.                   *)
(***************************************************************************)
SignalInit ==
  /\ CamInit({"signal"}, {RequestedId}, FirstPc)
  /\ SlotInit

SignalCall ==
  /\ Running /\ mode = "signal" /\ m_pc = "call" /\ cb_pc = "idle"
  /\ counter < MaxFrames
  /\ \E lv \in 0 .. (NumPins + 1) : level' = lv
  /\ pins_first' = pins
  /\ cb_pc' = "signal"
  /\ sig_n' = 0
  /\ sig_done' = FALSE
  /\ nsignals' = nsignals + 1
  /\ prev_level' = level
  /\ UNCHANGED << mode, device_id, devices, m_pc, proc, cause, pins, init_i,
                  init_st, init_res, init_calls, touched, call_touched,
                  stream, frame, global, counter, test_i, test_st, test_on,
                  slotVars >>

SignalNext ==
  \/ SignalCall
  \/ GpioSignalWrite
  \/ CallbackReturn

SpecSignal == SignalInit /\ [][SignalNext]_vars

(***************************************************************************)
(* SpecSlot: main_camera_nannou.rs.  cmd_run spawns the capture thread     *)
(* (capture_video) and runs the nannou application, whose view function is *)
(* the render tick.  VIDEO_FRAME is a OnceCell<RwLock<Vec<u8>>>.           *)
(***************************************************************************)
SlotFrames ==
  { UniformFrame(v) : v \in {view_treshold, view_treshold + 1} }
    \cup { RunFrame(0, 1), RunFrame(1, NumSamples) }

(* std::sync::RwLock: write() is granted when no guard is held. *)
CanWriteIgnoringReaders(w, r) == ~w

CanWrite(w, r) == ~w /\ r = 0

(* try_read() is granted unless a write guard is held. *)
CanRead(w) == ~w

(* instance.clear() omitted. *)
NotCleared(b) == b

(* instance.clear() *)
Cleared(b) == << >>

(* instance.append(&mut Vec::from(_frame.to_bytes())) *)
Appended(b, f) == b \o f

SlotSpecInit ==
  /\ CamInit({"preview"}, {RequestedId}, FirstPc)
  /\ \A i \in PinIdx : pins[i] = [exported |-> FALSE, direction |-> "in", value |-> 0]
  /\ SlotInit

(* capture_video up to start_stream: an early return or panic ends the     *)
(* thread before VIDEO_FRAME is set; otherwise the zeroed buffer is set    *)
(* and the stream starts (or start_stream fails after the set).            *)
CaptureStart ==
  /\ c_pc = "start"
  /\ \E r \in {"early_end", "stream_failed", "ok"} :
       CASE r = "early_end" -> c_pc' = "ended" /\ UNCHANGED << slot_set, buf >>
         [] r = "stream_failed" ->
              c_pc' = "ended" /\ slot_set' = TRUE /\ buf' = ZeroBuffer
         [] r = "ok" ->
              c_pc' = "idle" /\ slot_set' = TRUE /\ buf' = ZeroBuffer
  /\ UNCHANGED << camVars, writer, readers, c_frame, c_count, last_pub, r_pc,
                  r_off, r_seen, r_try, r_view, r_expect, r_count, r_drew >>

(* The callback is entered with a frame and calls video_frame.write():     *)
(* the guard is granted at once, or the capture thread waits for it.       *)
PublishCall ==
  /\ c_pc = "idle" /\ c_count < MaxFrames
  /\ \E f \in SlotFrames : c_frame' = f
  /\ IF CanWrite(writer, readers)
       THEN writer' = TRUE /\ c_pc' = "clear"
       ELSE c_pc' = "write_blocked" /\ UNCHANGED writer
  /\ UNCHANGED << camVars, slot_set, buf, readers, c_count, last_pub, r_pc,
                  r_off, r_seen, r_try, r_view, r_expect, r_count, r_drew >>

(* write() returns once the guards that kept it waiting are dropped. *)
PublishWake ==
  /\ c_pc = "write_blocked"
  /\ CanWrite(writer, readers)
  /\ writer' = TRUE
  /\ c_pc' = "clear"
  /\ UNCHANGED << camVars, slot_set, buf, readers, c_frame, c_count, last_pub,
                  r_pc, r_off, r_seen, r_try, r_view, r_expect, r_count,
                  r_drew >>

PublishClear ==
  /\ c_pc = "clear"
  /\ buf' = Cleared(buf)
  /\ c_pc' = "append"
  /\ UNCHANGED << camVars, slot_set, writer, readers, c_frame, c_count,
                  last_pub, r_pc, r_off, r_seen, r_try, r_view, r_expect,
                  r_count, r_drew >>

(* append, then the write guard is dropped at the end of the if-let block  *)
(* and count.fetch_add(1) ends the callback.                               *)
PublishAppend ==
  /\ c_pc = "append"
  /\ buf' = Appended(buf, c_frame)
  /\ writer' = FALSE
  /\ last_pub' = c_frame
  /\ c_count' = c_count + 1
  /\ c_pc' = "idle"
  /\ UNCHANGED << camVars, slot_set, readers, c_frame, r_pc, r_off, r_seen,
                  r_try, r_view, r_expect, r_count, r_drew >>

(* stream.stop() after the sleep: no callback is in progress. *)
SlotStopStream ==
  /\ c_pc = "idle"
  /\ c_pc' = "stopped"
  /\ UNCHANGED << camVars, slot_set, buf, writer, readers, c_frame, c_count,
                  last_pub, r_pc, r_off, r_seen, r_try, r_view, r_expect,
                  r_count, r_drew >>

(* view with read() in place of try_read(): the render thread waits for    *)
(* the write guard to be dropped.                                          *)
ViewBlockingRead ==
  /\ r_pc = "idle" /\ slot_set
  /\ r_drew' = FALSE
  /\ r_off' = 0 /\ r_seen' = << >> /\ r_count' = 0
  /\ IF CanRead(writer)
       THEN /\ readers' = readers + 1
            /\ r_pc' = "reading"
            /\ r_try' = [called |-> TRUE, writer_held |-> writer, got |-> TRUE]
            /\ r_view' = buf
            /\ r_expect' = last_pub
       ELSE /\ r_pc' = "read_blocked"
            /\ r_try' = [called |-> TRUE, writer_held |-> writer, got |-> FALSE]
            /\ UNCHANGED << readers, r_view, r_expect >>
  /\ UNCHANGED << camVars, slot_set, buf, writer, c_pc, c_frame, c_count,
                  last_pub >>

(* view, up to the pixel loop: VIDEO_FRAME.get() and try_read().  Without  *)
(* a guard the tick goes straight to draw.to_frame and ends.               *)
ViewTryRead ==
  /\ r_pc = "idle" /\ slot_set
  /\ r_drew' = FALSE
  /\ r_off' = 0 /\ r_seen' = << >> /\ r_count' = 0
  /\ IF CanRead(writer)
       THEN /\ readers' = readers + 1
            /\ r_pc' = "reading"
            /\ r_try' = [called |-> TRUE, writer_held |-> writer, got |-> TRUE]
            /\ r_view' = buf
            /\ r_expect' = last_pub
       ELSE /\ r_pc' = "idle"
            /\ r_try' = [called |-> TRUE, writer_held |-> writer, got |-> FALSE]
            /\ UNCHANGED << readers, r_view, r_expect >>
  /\ UNCHANGED << camVars, slot_set, buf, writer, c_pc, c_frame, c_count,
                  last_pub >>

(* view while VIDEO_FRAME.get() is None: nothing is read or drawn. *)
ViewNoSlot ==
  /\ r_pc = "idle" /\ ~slot_set
  /\ r_drew' = FALSE
  /\ r_try' = NoTry
  /\ UNCHANGED << camVars, slot_set, buf, writer, readers, c_pc, c_frame,
                  c_count, last_pub, r_pc, r_off, r_seen, r_view, r_expect,
                  r_count >>

(* One turn of the pixel loop: v = video_frame[offset], an index panic     *)
(* (which drops the guard) when the buffer is shorter than the offset.     *)
ViewSample ==
  /\ r_pc = "reading" /\ r_off < FrameSize
  /\ IF r_off < Len(buf)
       THEN /\ r_seen' = Append(r_seen, ByteAt(buf, r_off))
            /\ r_count' = r_count + (IF ByteAt(buf, r_off) > view_treshold THEN 1 ELSE 0)
            /\ r_off' = r_off + Stride
            /\ UNCHANGED << r_pc, readers >>
       ELSE /\ r_pc' = "panicked"
            /\ readers' = readers - 1
            /\ UNCHANGED << r_seen, r_count, r_off >>
  /\ UNCHANGED << camVars, slot_set, buf, writer, c_pc, c_frame, c_count,
                  last_pub, r_try, r_view, r_expect, r_drew >>

(* The loop is over: the texture and the count are drawn, the read guard   *)
(* is dropped, draw.to_frame ends the tick.                                *)
ViewDraw ==
  /\ r_pc = "reading" /\ r_off >= FrameSize
  /\ r_drew' = TRUE
  /\ readers' = readers - 1
  /\ r_pc' = "idle"
  /\ UNCHANGED << camVars, slot_set, buf, writer, c_pc, c_frame, c_count,
                  last_pub, r_off, r_seen, r_try, r_view, r_expect, r_count >>

SlotNext ==
  \/ CaptureStart
  \/ PublishCall
  \/ PublishWake
  \/ PublishClear
  \/ PublishAppend
  \/ SlotStopStream
  \/ ViewTryRead
  \/ ViewNoSlot
  \/ ViewSample
  \/ ViewDraw

SpecSlot == SlotSpecInit /\ [][SlotNext]_vars

(***************************************************************************)
(* Properties.                                                             *)
(***************************************************************************)
Min(a, b) == IF a < b THEN a ELSE b
Max(a, b) == IF a > b THEN a ELSE b
Clamp(x) == Min(Max(x, 0), NumPins - 1)

(* The luma samples of f strictly over the threshold, counted sample by    *)
(* sample: sample k is byte 2k of the frame.                               *)
LumaOver(f) ==
  Cardinality({ k \in 0 .. (Width * Height - 1) : f[2 * k + 1] > treshold })

IsUniform(f, v) == \A k \in 0 .. (Width * Height - 1) : f[2 * k + 1] = v

SignalCompleted == cb_pc = "signal" /\ sig_n = NumPins

(* C1: a GPIO::signal(L) call with L in [0, NumPins-1] that runs to its    *)
(* end leaves, whatever the pins held before, exactly the pins 0..L active *)
(* (value 0) and the others inactive (value 1): L+1 active pins.           *)
C1_SignalLeavesPrefix ==
  ((SignalCompleted \/ sig_done) /\ level \in PinIdx) =>
     /\ \A i \in PinIdx : pins[i].value = (IF i <= level THEN 0 ELSE 1)
     /\ ActivePins(pins) = 0 .. level
     /\ Cardinality(ActivePins(pins)) = level + 1

C1_Witness ==
  /\ sig_done /\ level = 1
  /\ pins_first[0].value = 1 /\ pins_first[2].value = 0
  /\ ActivePins(pins) = {0, 1}

(* C2: once the callback has processed a frame, the active pins are        *)
(* exactly 0..min(c \div pindiv, NumPins-1), c the number of luma samples  *)
(* strictly over the threshold; a uniform frame over the threshold leaves  *)
(* every pin active, a uniform frame not over it leaves only pin 0 active. *)
C2_CallbackLeavesThermometer ==
  (sig_done /\ mode = "run") =>
     /\ ActivePins(pins) = 0 .. Min(LumaOver(frame) \div pindiv, NumPins - 1)
     /\ \A v \in 0 .. 255 :
          IsUniform(frame, v) =>
            ActivePins(pins) = (IF v > treshold THEN PinIdx ELSE {0})

C2_Witness ==
  /\ sig_done /\ mode = "run"
  /\ LumaOver(frame) = pindiv + 1
  /\ ActivePins(pins) = {0, 1}

(* C3 as stated: the level the callback passes to GPIO::signal is          *)
(* clamp(c \div pindiv, 0, NumPins-1) and lies in [0, NumPins-1].          *)
C3_LevelPassedIsClamped ==
  (mode = "run" /\ nsignals > 0) =>
     /\ level = Clamp(LumaOver(frame) \div pindiv)
     /\ level \in PinIdx

(* C3 amended: the level passed is c \div pindiv, not clamped; it is       *)
(* non-negative and no frame with at least as many bright samples maps to  *)
(* a lower level; GPIO::signal activates the pins 0..clamp(level).         *)
C3_LevelIsQuotient ==
  (mode = "run" /\ nsignals > 0) =>
     /\ global = LumaOver(frame)
     /\ level = global \div pindiv
     /\ level >= 0
     /\ \A f \in Frames :
          /\ (LumaOver(f) >= global => SignalArg(BrightnessCount(f)) >= level)
          /\ (LumaOver(f) <= global => SignalArg(BrightnessCount(f)) <= level)
     /\ (SignalCompleted \/ sig_done) => ActivePins(pins) = 0 .. Clamp(level)

C3_Witness ==
  /\ mode = "run" /\ sig_done
  /\ global = Width * Height
  /\ level > NumPins - 1
  /\ ActivePins(pins) = PinIdx

(* C8: in the run mode a GPIO::signal call happens only after GPIO::init   *)
(* returned Ok, the first one finds every pin exported, output and at 1,   *)
(* and after a failed init no stream is started and no signal occurs.      *)
C8_SignalOnlyAfterInit ==
  (mode = "run") =>
     /\ (nsignals > 0 \/ stream # "none" \/ cb_pc # "idle") => init_res = "ok"
     /\ (cb_pc = "signal" /\ nsignals = 1 /\ sig_n = 0) =>
           \A i \in PinIdx : Initialised(pins[i])
     /\ (init_res = "err") => (stream = "none" /\ nsignals = 0 /\ cb_pc = "idle")

C8_Witness ==
  /\ mode = "run" /\ cb_pc = "signal" /\ nsignals = 1 /\ sig_n = 0
  /\ touched
  /\ \A i \in PinIdx : Initialised(pins[i])

(* C9: a second GPIO::init right after a first one that returned Ok        *)
(* attempts no export, direction set or value set and leaves the pins as   *)
(* the first call left them: exported, output, value 1.                    *)
C9_InitIdempotent ==
  (mode = "init_twice" /\ init_calls >= 1) =>
     /\ ~call_touched
     /\ pins = pins_first
     /\ \A i \in PinIdx : Initialised(pins[i])

C9_Witness ==
  /\ mode = "init_twice" /\ init_calls = 2 /\ proc = "exit_ok"
  /\ touched /\ ~call_touched
  /\ pins = pins_first

(* C10: a run whose device is not enumerated, or whose open is refused     *)
(* with access denied, exits normally having attempted no pin operation    *)
(* and started no stream; every other failure ends the run with an error.  *)
ExpectedCauses == {"device_not_found", "access_denied"}
FailureCauses == {"context", "parse", "enumerate", "open", "ae_mode",
                  "stream_handle", "gpio_init", "start_stream", "gpio_signal"}

C10_ExpectedConditionsExitCleanly ==
  (mode = "run") =>
     /\ (cause = "device_not_found") => device_id \notin devices
     /\ (cause \in ExpectedCauses) =>
          /\ proc = "exit_ok"
          /\ ~touched /\ init_res = "none"
          /\ stream = "none" /\ nsignals = 0
     /\ (cause \in FailureCauses) => proc \in {"panicked", "aborted"}
     /\ (proc = "exit_ok") => cause \in (ExpectedCauses \cup {"finished"})
     /\ (proc # "running") => cause \in (ExpectedCauses \cup FailureCauses \cup {"finished"})

C10_Witness ==
  /\ mode = "run" /\ proc = "exit_ok" /\ cause = "device_not_found"
  /\ devices # {}
  /\ ~touched /\ stream = "none"
  /\ \E i \in PinIdx : ~Initialised(pins[i])

(* The luma samples of frame f at the offsets below off. *)
LumaPrefix(f, off) == [k \in 1 .. (off \div 2) |-> f[2 * (k - 1) + 1]]

CompleteFrames == {ZeroBuffer} \cup SlotFrames

(* C4: whatever the interleaving, while view holds the guard a successful  *)
(* try_read gave it, the buffer is one complete frame (the initial buffer  *)
(* or a published frame), the same from the first sample to the last:      *)
(* never the cleared buffer, never bytes of two frames.                    *)
C4_ReaderSeesOneCompleteFrame ==
  /\ r_pc # "panicked"
  /\ (r_pc = "reading") =>
        /\ readers = 1 /\ ~writer
        /\ buf \in CompleteFrames
        /\ buf = r_view
        /\ r_seen = LumaPrefix(r_view, r_off)
  /\ (r_pc = "idle" /\ r_drew) =>
        /\ r_view \in CompleteFrames
        /\ r_seen = LumaPrefix(r_view, FrameSize)

C4_Witness ==
  /\ r_pc = "reading" /\ r_off = FrameSize
  /\ c_pc = "write_blocked"
  /\ c_frame # buf
  /\ buf \in SlotFrames
  /\ r_seen = LumaPrefix(buf, FrameSize)

(* C5: while no publish is in progress the buffer is FrameSize bytes long  *)
(* and equal to the frame published last (the zeroed buffer before the     *)
(* first publish), and that is what a try_read that is granted returns.    *)
C5_ReadReturnsLatestFrame ==
  /\ (slot_set /\ c_pc \notin {"clear", "append"}) =>
        /\ Len(buf) = Width * Height * 2
        /\ buf = last_pub
  /\ (r_try.got) =>
        /\ Len(r_view) = Width * Height * 2
        /\ r_view = r_expect

C5_Witness ==
  /\ r_try.got /\ r_pc = "reading"
  /\ c_count = 2
  /\ r_view = last_pub
  /\ r_view = c_frame
  /\ r_view # ZeroBuffer

(* C6 as stated: a publish begun while the render thread holds a read      *)
(* guard goes on without waiting for the guard to be dropped.              *)
C6_PublishNeverWaitsForReader ==
  ~(c_pc = "write_blocked" /\ readers > 0)

(* C7: try_read never waits.  With a writer holding the lock it returns    *)
(* nothing and the tick ends without drawing the frame; with no writer     *)
(* holding it, it returns the buffer; the render thread is never blocked   *)
(* on the lock.                                                            *)
C7_TryReadNeverWaits ==
  /\ r_pc \in {"idle", "reading"}
  /\ (r_try.called) => (r_try.got = ~r_try.writer_held)
  /\ (r_try.called /\ ~r_try.got) => (r_pc = "idle" /\ ~r_drew)
  /\ (r_pc = "reading") => r_try.got

C7_Witness ==
  /\ r_try.called /\ r_try.writer_held /\ ~r_try.got
  /\ r_pc = "idle" /\ ~r_drew
  /\ writer /\ c_pc = "append"

(* C11: when the write to pin k fails in GPIO::signal(level), the call     *)
(* ends there: pins 0..k-1 hold the values this call wrote, pins k and up  *)
(* hold what they held before the call, nothing is retried or rolled back, *)
(* and the process is aborted with that call the last one ever begun.      *)
C11_FailedSignalStopsTheProcess ==
  (mode = "run" /\ cause = "gpio_signal") =>
     /\ proc = "aborted"
     /\ cb_pc = "signal" /\ sig_n \in PinIdx /\ ~sig_done
     /\ \A i \in PinIdx :
          pins[i].value = (IF i < sig_n
                             THEN (IF i <= level THEN 0 ELSE 1)
                             ELSE pins_first[i].value)
     /\ nsignals = counter + 1

C11_Witness ==
  /\ mode = "run" /\ cause = "gpio_signal" /\ proc = "aborted"
  /\ nsignals = 2 /\ level = 0 /\ sig_n = 2
  /\ ActivePins(pins_first) = PinIdx
  /\ ActivePins(pins) = {0, 2}

(* C12 as stated: in the preview variant every frame handed to the capture *)
(* callback is, by the time the callback has returned, both signalled on   *)
(* the pins (one GPIO::signal call per frame) and published in the slot.   *)
C12_EveryFrameSignalsAndPublishes ==
  (mode = "preview" /\ c_pc \in {"idle", "stopped"}) =>
     /\ nsignals = c_count
     /\ (c_count > 0) => (buf = c_frame /\ touched)

(* C13: stream.stop() and everything after it leave the frame counter, the *)
(* number of GPIO::signal calls and every pin as they were: no callback    *)
(* runs once the stream is stopped, and the pins keep the bar the last     *)
(* signal call left (pin 0 active), they are not returned to idle.         *)
C13_StopFreezesCallbacksAndPins ==
  /\ [](stream = "stopped" =>
          /\ cb_pc = "idle"
          /\ counter = nsignals
          /\ sig_done => (ActivePins(pins) = 0 .. Clamp(level) /\ pins[0].value = 0))
  /\ [][(stream' = "stopped") =>
          (counter' = counter /\ nsignals' = nsignals /\ pins' = pins)]_vars

C13_Witness ==
  /\ mode = "run" /\ stream = "stopped" /\ proc = "exit_ok"
  /\ counter = 1 /\ nsignals = 1 /\ sig_done
  /\ ActivePins(pins) = PinIdx

(* C14: in GPIO::test after a successful GPIO::init the pins are driven    *)
(* active one at a time, in index order, each once: at most one pin is     *)
(* active at any point, it is the pin under test, every earlier pin has    *)
(* been driven once and is idle again, no later pin has been driven, and   *)
(* when test returns every pin is idle.                                    *)
C14_SweepOnePinAtATime ==
  (mode = "ledstest" /\ init_res = "ok") =>
     /\ Cardinality(ActivePins(pins)) <= 1
     /\ ActivePins(pins) = (IF test_st = "off" THEN {test_i} ELSE {})
     /\ \A i \in PinIdx :
          test_on[i] = (IF i < test_i \/ (i = test_i /\ test_st = "off")
                          THEN 1 ELSE 0)
     /\ (m_pc = "done") =>
          /\ test_i = NumPins
          /\ \A i \in PinIdx : pins[i].value = 1 /\ test_on[i] = 1

C14_Witness ==
  /\ mode = "ledstest" /\ init_res = "ok" /\ m_pc = "test"
  /\ test_i = 1 /\ test_st = "off"
  /\ ActivePins(pins) = {1}
  /\ test_on[0] = 1 /\ test_on[1] = 1 /\ test_on[2] = 0

(* C15: while GPIO::signal(b) runs after a completed GPIO::signal(a), with *)
(* a and b capped at NumPins-1, between any two pin writes every pin up to *)
(* min(a, b) is active and every pin above max(a, b) is inactive; so once  *)
(* the first signal call has completed pin 0 is active in every state of   *)
(* the run.                                                                *)
C15_BarStaysBetweenOldAndNew ==
  (mode = "run") =>
     /\ (cb_pc = "signal" /\ nsignals >= 2) =>
          \A i \in PinIdx :
             /\ (i <= Min(Clamp(prev_level), Clamp(level))) => pins[i].value = 0
             /\ (i > Max(Clamp(prev_level), Clamp(level))) => pins[i].value = 1
     /\ (counter >= 1) => pins[0].value = 0

C15_Witness ==
  /\ mode = "run" /\ cb_pc = "signal" /\ nsignals = 2 /\ proc = "running"
  /\ prev_level > NumPins - 1 /\ level = 0
  /\ sig_n = 2
  /\ ActivePins(pins) = {0, 2}

====
